---- MODULE Spec2Model ----
(***************************************************************************)
(* One run of the Streamlit script src/app.py: an uploaded CSV is loaded   *)
(* into the table df, the seven report functions are called on it in turn, *)
(* their results are written to the sheets of an in-memory workbook, the   *)
(* download button is rendered and the module-level mail step runs.        *)
(*                                                                         *)
(* Numbers.  Integer columns are integers.  Every value pandas computes    *)
(* as a float64 (a mean, a rate, a per-row productivity) is a binary       *)
(* floating-point number here too: a rational [num, den] rounded to        *)
(* Precision significant bits, to nearest, ties to even, after every       *)
(* operation.  The significand is scaled down from 53 bits so that the     *)
(* values can be enumerated; the exponent is unbounded.  Division by zero  *)
(* gives Inf or NaN as in IEEE 754; pandas raises nothing there.           *)
(***************************************************************************)
EXTENDS Integers, Sequences, FiniteSets, Bags, TLC

\* Bounds of the model.
MaxRows == 3
Precision == 5

\* A missing text cell (an empty CSV field).
NA == "NaN"
\* The floats that are no numbers: 0/0 and x/0.
NaN == [num |-> 0, den |-> 0]
Inf == [num |-> 1, den |-> 0]
\* The timestamp that is no date.
NaT == [year |-> 0, month |-> 0, day |-> 0]

(***************************************************************************)
(* Floating-point arithmetic.                                              *)
(***************************************************************************)
RECURSIVE Pow2(_)
Pow2(k) == IF k = 0 THEN 1 ELSE 2 * Pow2(k - 1)

Abs(i) == IF i < 0 THEN -i ELSE i

RECURSIVE Gcd(_, _)
Gcd(a, b) == IF b = 0 THEN a ELSE Gcd(b, a % b)

\* The rational n/d (d > 0) in lowest terms.
Rat(n, d) ==
    LET g == Gcd(Abs(n), d)
    IN  IF n = 0 THEN [num |-> 0, den |-> 1] ELSE [num |-> n \div g, den |-> d \div g]

\* a/b (a, b > 0) scaled by powers of two into [2^(Precision-1), 2^Precision),
\* rounded to an integer significand (half to even), and scaled back.
RECURSIVE RoundPos(_, _)
RoundPos(a, b) ==
    IF a >= Pow2(Precision) * b THEN
        LET r == RoundPos(a, 2 * b) IN Rat(2 * r.num, r.den)
    ELSE IF a < Pow2(Precision - 1) * b THEN
        LET r == RoundPos(2 * a, b) IN Rat(r.num, 2 * r.den)
    ELSE
        LET m == a \div b
            rem2 == 2 * (a % b)
            up == rem2 > b \/ (rem2 = b /\ m % 2 = 1)
        IN  Rat(IF up THEN m + 1 ELSE m, 1)

\* The float nearest to n/d (d > 0).
Fl(n, d) ==
    IF n = 0 THEN Rat(0, 1)
    ELSE IF n > 0 THEN RoundPos(n, d)
    ELSE LET r == RoundPos(-n, d) IN Rat(-r.num, r.den)

FromInt(i) == Fl(i, 1)
FAdd(x, y) == Fl(x.num * y.den + y.num * x.den, x.den * y.den)
FSub(x, y) == Fl(x.num * y.den - y.num * x.den, x.den * y.den)
FMul(x, y) == Fl(x.num * y.num, x.den * y.den)

\* x / y for floats x >= 0, y >= 0: x/0 is inf, 0/0 is NaN.
FDiv(x, y) ==
    IF y.num = 0 THEN (IF x.num = 0 THEN NaN ELSE Inf)
    ELSE Fl(x.num * y.den, x.den * y.num)

\* (x / y) * k, where x / y may already be inf or NaN.
FScale(q, k) == IF q.den = 0 THEN q ELSE FMul(q, k)

(***************************************************************************)
(* Tables.  A table (DataFrame) is [columns, rows]: the column names in    *)
(* order, and the rows in order, each a function from column name to cell. *)
(***************************************************************************)
\* The strings of the model in Python's string order (what a sort compares).
StringOrder == <<"2023-12", "2024-01", "A", "B", "Day", "NaT", "Night">>

Rank(s) == CHOOSE i \in DOMAIN StringOrder : StringOrder[i] = s

Range(seq) == {seq[i] : i \in DOMAIN seq}

HasColumn(df, c) == c \in Range(df.columns)

Column(df, c) == [i \in DOMAIN df.rows |-> df.rows[i][c]]

\* df[c] = vals: the column is overwritten, or appended when it is new.
SetColumn(df, c, vals) ==
    [columns |-> IF HasColumn(df, c) THEN df.columns ELSE Append(df.columns, c),
     rows |-> [i \in DOMAIN df.rows |-> (c :> vals[i]) @@ df.rows[i]]]

\* df[cols]: the named columns only.
Project(df, cols) ==
    [columns |-> cols,
     rows |-> [i \in DOMAIN df.rows |-> [c \in Range(cols) |-> df.rows[i][c]]]]

RECURSIVE SumInts(_)
SumInts(vals) == IF vals = <<>> THEN 0 ELSE Head(vals) + SumInts(Tail(vals))

\* Tuples of strings of one length, compared lexicographically.
RECURSIVE KeyLess(_, _)
KeyLess(a, b) ==
    /\ a # <<>>
    /\ \/ Rank(Head(a)) < Rank(Head(b))
       \/ Head(a) = Head(b) /\ KeyLess(Tail(a), Tail(b))

RECURSIVE SortKeys(_)
SortKeys(S) ==
    IF S = {} THEN <<>>
    ELSE LET m == CHOOSE x \in S : \A y \in S : ~KeyLess(y, x)
         IN  <<m>> \o SortKeys(S \ {m})

KeyOf(row, by) == [j \in DOMAIN by |-> row[by[j]]]

\* The distinct keys in the order of their first row (a groupby with
\* sort=False).
RECURSIVE FirstSeen(_, _)
FirstSeen(rows, by) ==
    IF rows = <<>> THEN <<>>
    ELSE LET before == FirstSeen(SubSeq(rows, 1, Len(rows) - 1), by)
             k == KeyOf(rows[Len(rows)], by)
         IN  IF NA \in Range(k) \/ k \in Range(before) THEN before
             ELSE Append(before, k)

GroupKeysUnsorted(df, by) == FirstSeen(df.rows, by)

\* groupby(by): the distinct keys, sorted; a row with a missing key value is
\* in no group (dropna).
GroupKeys(df, by) ==
    SortKeys({KeyOf(df.rows[i], by) : i \in DOMAIN df.rows}
             \ {k \in {KeyOf(df.rows[i], by) : i \in DOMAIN df.rows} : NA \in Range(k)})

\* The values of column col in the rows of group k, in row order.
GroupValues(df, by, col, k) ==
    LET InGroup(row) == KeyOf(row, by) = k
        members == SelectSeq(df.rows, InGroup)
    IN  [i \in DOMAIN members |-> members[i][col]]

\* One step of the compensated (Kahan) summation of pandas' group mean;
\* acc is [sum, comp].
KahanStep(acc, val) ==
    LET y == FSub(val, acc.comp)
        t == FAdd(acc.sum, y)
    IN  [sum |-> t, comp |-> FSub(FSub(t, acc.sum), y)]

RECURSIVE KahanSum(_, _)
KahanSum(acc, vals) ==
    IF vals = <<>> THEN acc.sum ELSE KahanSum(KahanStep(acc, Head(vals)), Tail(vals))

\* groupby(...).mean() of one group: NaN entries are skipped, an inf entry
\* makes the sum inf, and the sum of the rest is divided by their count.
GroupMean(vals) ==
    LET NotNaN(v) == v # NaN
        obs == SelectSeq(vals, NotNaN)
    IN  IF obs = <<>> THEN NaN
        ELSE IF Inf \in Range(obs) THEN Inf
        ELSE FDiv(KahanSum([sum |-> Rat(0, 1), comp |-> Rat(0, 1)], obs),
                  FromInt(Len(obs)))

GroupSum(vals) == SumInts(vals)

IntsToFloats(vals) == [i \in DOMAIN vals |-> FromInt(vals[i])]

\* .sum() or .mean() of the values of one group.
Aggregate(agg, vals) == IF agg = "sum" THEN GroupSum(vals) ELSE GroupMean(vals)

\* groupby(by)[col].agg().reset_index(): one row per key, in key order.
GroupAgg(df, by, col, agg) ==
    LET keys == GroupKeys(df, by)
    IN  [columns |-> by \o <<col>>,
         rows |-> [n \in DOMAIN keys |->
                     (col :> Aggregate(agg, GroupValues(df, by, col, keys[n])))
                     @@ [c \in Range(by) |->
                           keys[n][CHOOSE j \in DOMAIN by : by[j] = c]]]]

RECURSIVE SumFloats(_)
SumFloats(vals) ==
    IF vals = <<>> THEN Rat(0, 1)
    ELSE FAdd(SumFloats(SubSeq(vals, 1, Len(vals) - 1)), vals[Len(vals)])

\* DataFrame.mean() of one column: the sum, left to right, over the count.
ColumnMean(vals) == FDiv(SumFloats(IntsToFloats(vals)), FromInt(Len(vals)))

(***************************************************************************)
(* Dates.                                                                  *)
(***************************************************************************)
\* pd.to_datetime(text, errors="coerce"): a timestamp, or NaT for text that
\* is no date.
to_datetime(text) ==
    CASE text = "2023-12-30" -> [year |-> 2023, month |-> 12, day |-> 30]
      [] text = "2024-01-15" -> [year |-> 2024, month |-> 1, day |-> 15]
      [] text = "2024-01-20" -> [year |-> 2024, month |-> 1, day |-> 20]
      [] OTHER -> NaT

\* .dt.to_period("M").astype(str): "YYYY-MM", and the string "NaT" for NaT.
to_period_M_str(d) ==
    IF d = NaT THEN "NaT"
    ELSE CASE d.year = 2023 /\ d.month = 12 -> "2023-12"
           [] d.year = 2024 /\ d.month = 1 -> "2024-01"

(***************************************************************************)
(* The report functions.  Each gives [ret, df]: what it returns, and the   *)
(* caller's table as the call leaves it.                                   *)
(***************************************************************************)
generate_units_by_product(df) ==
    [ret |-> GroupAgg(df, <<"Product Type">>, "Units Produced", "sum"),
     df |-> df]

generate_avg_defects_by_shift(df) ==
    LET fdf == SetColumn(df, "Defects", IntsToFloats(Column(df, "Defects")))
    IN  [ret |-> GroupAgg(fdf, <<"Shift">>, "Defects", "mean"),
         df |-> df]

generate_monthly_production(df) ==
    LET dates == Column(df, "Date")
        withMonth == SetColumn(df, "Month",
                               [i \in DOMAIN dates |-> to_period_M_str(dates[i])])
    IN  [ret |-> GroupAgg(withMonth, <<"Month">>, "Units Produced", "sum"),
         df |-> withMonth]

\* The second test written as elif: at most one cost column is taken.
generate_avg_cost_summary_elif(df) ==
    LET cols == IF HasColumn(df, "Material Cost Per Unit")
                THEN <<"Material Cost Per Unit">>
                ELSE IF HasColumn(df, "Labour Cost Per Hour")
                THEN <<"Labour Cost Per Hour">> ELSE <<>>
    IN  [ret |-> [columns |-> <<"index", "Average Cost">>,
                  rows |-> [n \in DOMAIN cols |->
                              ("index" :> cols[n])
                              @@ ("Average Cost" :> ColumnMean(Column(df, cols[n])))]],
         df |-> df]

generate_avg_cost_summary(df) ==
    LET cols == (IF HasColumn(df, "Material Cost Per Unit")
                 THEN <<"Material Cost Per Unit">> ELSE <<>>)
                \o (IF HasColumn(df, "Labour Cost Per Hour")
                    THEN <<"Labour Cost Per Hour">> ELSE <<>>)
    IN  [ret |-> [columns |-> <<"index", "Average Cost">>,
                  rows |-> [n \in DOMAIN cols |->
                              ("index" :> cols[n])
                              @@ ("Average Cost" :> ColumnMean(Column(df, cols[n])))]],
         df |-> df]

\* Pearson's r of two columns: 1.0 of a column with itself, NaN when a
\* column is constant; otherwise the coefficient of the two columns, kept
\* as the (unordered) pair of columns it is computed from.
Pearson(xs, ys) ==
    IF Cardinality(Range(xs)) <= 1 \/ Cardinality(Range(ys)) <= 1 THEN NaN
    ELSE IF xs = ys THEN FromInt(1)
    ELSE [pearson |-> {xs, ys}]

generate_energy_vs_production(df) ==
    LET cols == <<"Energy Consumption kWh", "Units Produced">>
    IN  [ret |-> [columns |-> <<"index">> \o cols,
                  rows |-> [n \in DOMAIN cols |->
                              ("index" :> cols[n])
                              @@ [c \in Range(cols) |->
                                    Pearson(Column(df, cols[n]), Column(df, c))]]],
         df |-> df]

\* The rate taken per row and averaged per product, in place of the ratio
\* of the two group sums.
generate_defect_rate_mean_of_row_rates(df) ==
    LET rated == SetColumn(df, "Defect Rate (%)",
                   [i \in DOMAIN df.rows |->
                      FScale(FDiv(FromInt(df.rows[i]["Defects"]),
                                  FromInt(df.rows[i]["Units Produced"])),
                             FromInt(100))])
    IN  [ret |-> GroupAgg(rated, <<"Product Type">>, "Defect Rate (%)", "mean"),
         df |-> df]

generate_defect_rate_by_product(df) ==
    LET prod == GroupAgg(df, <<"Product Type">>, "Units Produced", "sum")
        defects == GroupAgg(df, <<"Product Type">>, "Defects", "sum")
    IN  [ret |-> [columns |-> <<"Product Type", "Defect Rate (%)">>,
                  rows |-> [n \in DOMAIN prod.rows |->
                              ("Product Type" :> prod.rows[n]["Product Type"])
                              @@ ("Defect Rate (%)" :>
                                    FScale(FDiv(FromInt(defects.rows[n]["Defects"]),
                                                FromInt(prod.rows[n]["Units Produced"])),
                                           FromInt(100)))]],
         df |-> df]

\* The function without its df.copy(): the Productivity column lands on the
\* caller's table.
generate_productivity_per_operator_no_copy(df) ==
    LET local == SetColumn(df, "Productivity",
                   [i \in DOMAIN df.rows |->
                      FDiv(FromInt(df.rows[i]["Units Produced"]),
                           FromInt(df.rows[i]["Operator Count"]
                                   * df.rows[i]["Production Time Hours"]))])
    IN  [ret |-> GroupAgg(Project(local, <<"Product Type", "Shift", "Productivity">>),
                          <<"Product Type", "Shift">>, "Productivity", "mean"),
         df |-> local]

generate_productivity_per_operator(df) ==
    LET copy == df
        local == SetColumn(copy, "Productivity",
                   [i \in DOMAIN copy.rows |->
                      FDiv(FromInt(copy.rows[i]["Units Produced"]),
                           FromInt(copy.rows[i]["Operator Count"]
                                   * copy.rows[i]["Production Time Hours"]))])
    IN  [ret |-> GroupAgg(Project(local, <<"Product Type", "Shift", "Productivity">>),
                          <<"Product Type", "Shift">>, "Productivity", "mean"),
         df |-> df]

(***************************************************************************)
(* The run of the script.                                                  *)
(***************************************************************************)
VARIABLES
    uploaded_file,  \* the uploaded CSV as a table of raw cells, or NoTable
    df,             \* the loaded table
    units, defects, monthly, cost, energy, defect_rate, productivity,
    buffer,         \* the sheets written to the workbook, in order
    download,       \* the rendered download button
    ran,            \* the report functions that have returned, in call order
    pc,             \* the statement the script is at
    error           \* the uncaught exception that ended the run, if any

vars == <<uploaded_file, df, units, defects, monthly, cost, energy, defect_rate,
          productivity, buffer, download, ran, pc, error>>

\* No table: the name is not bound (yet).
NoTable == [columns |-> <<>>, rows |-> <<>>]
NoError == [type |-> "none", at |-> "none"]
NoDownload == [data |-> <<>>, file_name |-> "", mime |-> ""]

\* The columns each statement reads with df[...]; a column that is absent
\* raises KeyError.
Requires(stmt) ==
    CASE stmt = "load" -> {"Date"}
      [] stmt = "units" -> {"Product Type", "Units Produced"}
      [] stmt = "defects" -> {"Shift", "Defects"}
      [] stmt = "monthly" -> {"Date", "Units Produced"}
      [] stmt = "cost" -> {}
      [] stmt = "energy" -> {"Energy Consumption kWh", "Units Produced"}
      [] stmt = "defect_rate" -> {"Product Type", "Units Produced", "Defects"}
      [] stmt = "productivity" -> {"Product Type", "Shift", "Units Produced",
                                   "Operator Count", "Production Time Hours"}

Raises(stmt, table) == ~(Requires(stmt) \subseteq Range(table.columns))

\* An exception leaves the script: Streamlit ends the run there.
Uncaught(type, stmt) ==
    /\ pc' = "crashed"
    /\ error' = [type |-> type, at |-> stmt]

\* if uploaded_file: is false.
NoUpload ==
    /\ pc = "start"
    /\ uploaded_file = NoTable
    /\ pc' = "mail"
    /\ UNCHANGED <<uploaded_file, df, units, defects, monthly, cost, energy,
                   defect_rate, productivity, buffer, download, ran, error>>

\* df = pd.read_csv(...); df["Date"] = pd.to_datetime(df["Date"], errors="coerce")
LoadFile ==
    /\ pc = "start"
    /\ uploaded_file # NoTable
    /\ IF Raises("load", uploaded_file)
       THEN Uncaught("KeyError", "load") /\ UNCHANGED df
       ELSE /\ df' = SetColumn(uploaded_file, "Date",
                       [i \in DOMAIN uploaded_file.rows |->
                          to_datetime(uploaded_file.rows[i]["Date"])])
            /\ pc' = "units"
            /\ UNCHANGED error
    /\ UNCHANGED <<uploaded_file, units, defects, monthly, cost, energy,
                   defect_rate, productivity, buffer, download, ran>>

UnitsByProduct ==
    /\ pc = "units"
    /\ IF Raises("units", df)
       THEN Uncaught("KeyError", "units") /\ UNCHANGED <<df, units, ran>>
       ELSE LET r == generate_units_by_product(df)
            IN  /\ units' = r.ret
                /\ df' = r.df
                /\ ran' = Append(ran, "units")
                /\ pc' = "defects"
                /\ UNCHANGED error
    /\ UNCHANGED <<uploaded_file, defects, monthly, cost, energy, defect_rate,
                   productivity, buffer, download>>

AvgDefectsByShift ==
    /\ pc = "defects"
    /\ IF Raises("defects", df)
       THEN Uncaught("KeyError", "defects") /\ UNCHANGED <<df, defects, ran>>
       ELSE LET r == generate_avg_defects_by_shift(df)
            IN  /\ defects' = r.ret
                /\ df' = r.df
                /\ ran' = Append(ran, "defects")
                /\ pc' = "monthly"
                /\ UNCHANGED error
    /\ UNCHANGED <<uploaded_file, units, monthly, cost, energy, defect_rate,
                   productivity, buffer, download>>

MonthlyProduction ==
    /\ pc = "monthly"
    /\ IF Raises("monthly", df)
       THEN Uncaught("KeyError", "monthly") /\ UNCHANGED <<df, monthly, ran>>
       ELSE LET r == generate_monthly_production(df)
            IN  /\ monthly' = r.ret
                /\ df' = r.df
                /\ ran' = Append(ran, "monthly")
                /\ pc' = "cost"
                /\ UNCHANGED error
    /\ UNCHANGED <<uploaded_file, units, defects, cost, energy, defect_rate,
                   productivity, buffer, download>>

AverageCost ==
    /\ pc = "cost"
    /\ IF Raises("cost", df)
       THEN Uncaught("KeyError", "cost") /\ UNCHANGED <<df, cost, ran>>
       ELSE LET r == generate_avg_cost_summary(df)
            IN  /\ cost' = r.ret
                /\ df' = r.df
                /\ ran' = Append(ran, "cost")
                /\ pc' = "energy"
                /\ UNCHANGED error
    /\ UNCHANGED <<uploaded_file, units, defects, monthly, energy, defect_rate,
                   productivity, buffer, download>>

EnergyVsProduction ==
    /\ pc = "energy"
    /\ IF Raises("energy", df)
       THEN Uncaught("KeyError", "energy") /\ UNCHANGED <<df, energy, ran>>
       ELSE LET r == generate_energy_vs_production(df)
            IN  /\ energy' = r.ret
                /\ df' = r.df
                /\ ran' = Append(ran, "energy")
                /\ pc' = "defect_rate"
                /\ UNCHANGED error
    /\ UNCHANGED <<uploaded_file, units, defects, monthly, cost, defect_rate,
                   productivity, buffer, download>>

DefectRateByProduct ==
    /\ pc = "defect_rate"
    /\ IF Raises("defect_rate", df)
       THEN Uncaught("KeyError", "defect_rate") /\ UNCHANGED <<df, defect_rate, ran>>
       ELSE LET r == generate_defect_rate_by_product(df)
            IN  /\ defect_rate' = r.ret
                /\ df' = r.df
                /\ ran' = Append(ran, "defect_rate")
                /\ pc' = "productivity"
                /\ UNCHANGED error
    /\ UNCHANGED <<uploaded_file, units, defects, monthly, cost, energy,
                   productivity, buffer, download>>

ProductivityPerOperator ==
    /\ pc = "productivity"
    /\ IF Raises("productivity", df)
       THEN Uncaught("KeyError", "productivity") /\ UNCHANGED <<df, productivity, ran>>
       ELSE LET r == generate_productivity_per_operator(df)
            IN  /\ productivity' = r.ret
                /\ df' = r.df
                /\ ran' = Append(ran, "productivity")
                /\ pc' = "export"
                /\ UNCHANGED error
    /\ UNCHANGED <<uploaded_file, units, defects, monthly, cost, energy,
                   defect_rate, buffer, download>>

\* A workbook where the cost and the energy tables went to each other's sheet.
WrittenSheetsSwapped ==
    << [sheet_name |-> "Units by Product", table |-> units],
       [sheet_name |-> "Defects by Shift", table |-> defects],
       [sheet_name |-> "Monthly Production", table |-> monthly],
       [sheet_name |-> "Cost Summary", table |-> energy],
       [sheet_name |-> "Energy vs Prod", table |-> cost],
       [sheet_name |-> "Defect Rate (%)", table |-> defect_rate],
       [sheet_name |-> "Productivity", table |-> productivity] >>

\* The seven to_excel calls inside `with ExcelWriter(buffer) as writer:`,
\* one sheet each, in the order of the calls.
WrittenSheets ==
    << [sheet_name |-> "Units by Product", table |-> units],
       [sheet_name |-> "Defects by Shift", table |-> defects],
       [sheet_name |-> "Monthly Production", table |-> monthly],
       [sheet_name |-> "Cost Summary", table |-> cost],
       [sheet_name |-> "Energy vs Prod", table |-> energy],
       [sheet_name |-> "Defect Rate (%)", table |-> defect_rate],
       [sheet_name |-> "Productivity", table |-> productivity] >>

ExportExcelReport ==
    /\ pc = "export"
    /\ buffer' = WrittenSheets
    /\ pc' = "download"
    /\ UNCHANGED <<uploaded_file, df, units, defects, monthly, cost, energy,
                   defect_rate, productivity, download, ran, error>>

DownloadButton ==
    /\ pc = "download"
    /\ download' = [data |-> buffer,
                    file_name |-> "agentic_report.xlsx",
                    mime |-> "application/vnd.openxmlformats-officedocument.spreadsheetml.sheet"]
    /\ pc' = "mail"
    /\ UNCHANGED <<uploaded_file, df, units, defects, monthly, cost, energy,
                   defect_rate, productivity, buffer, ran, error>>

\* The names the module has bound when the mail step starts: its imports,
\* its functions, and what the main block assigned.
Globals ==
    {"st", "pd", "plt", "ExcelWriter", "io", "smtplib", "MIMEMultipart",
     "MIMEBase", "MIMEText", "encoders", "os", "uploaded_file",
     "generate_units_by_product", "generate_avg_defects_by_shift",
     "generate_monthly_production", "generate_avg_cost_summary",
     "generate_energy_vs_production", "generate_defect_rate_by_product",
     "generate_productivity_per_operator", "send_report_via_email"}
    \cup (IF df # NoTable THEN {"df"} ELSE {})
    \cup Range(ran)
    \cup (IF buffer # <<>> THEN {"buffer", "writer"} ELSE {})

\* The module-level mail step.  Reading a name the module never bound
\* raises NameError: `request` outside the try, `application` while the
\* arguments of the call are evaluated (an Exception, so the handler runs),
\* `app` inside the handler.
MailStep ==
    /\ pc = "mail"
    /\ IF "request" \notin Globals
       THEN Uncaught("NameError", "mail")
       ELSE \E recipient \in {"", "user@example.com"} :
               IF recipient = ""
               THEN pc' = "done" /\ UNCHANGED error
               ELSE \* the call raises; the handler logs through app.logger
                    IF "app" \in Globals
                    THEN pc' = "done" /\ UNCHANGED error
                    ELSE Uncaught("NameError", "mail")
    /\ UNCHANGED <<uploaded_file, df, units, defects, monthly, cost, energy,
                   defect_rate, productivity, buffer, download, ran>>

Next ==
    \/ NoUpload
    \/ LoadFile
    \/ UnitsByProduct
    \/ AvgDefectsByShift
    \/ MonthlyProduction
    \/ AverageCost
    \/ EnergyVsProduction
    \/ DefectRateByProduct
    \/ ProductivityPerOperator
    \/ ExportExcelReport
    \/ DownloadButton
    \/ MailStep

(***************************************************************************)
(* The uploaded files.                                                     *)
(***************************************************************************)
\* The header of a complete CSV.
AllColumns ==
    <<"Date", "Product Type", "Shift", "Units Produced", "Defects",
      "Operator Count", "Production Time Hours", "Energy Consumption kWh",
      "Material Cost Per Unit", "Labour Cost Per Hour">>

BaseRow ==
    [c \in Range(AllColumns) |->
       CASE c = "Date" -> "2024-01-15"
         [] c = "Product Type" -> "A"
         [] c = "Shift" -> "Day"
         [] c = "Defects" -> 0
         [] c = "Material Cost Per Unit" -> 2
         [] c = "Labour Cost Per Hour" -> 3
         [] OTHER -> 1]

Without(cols, absent) ==
    LET Kept(c) == c \notin absent IN SelectSeq(cols, Kept)

\* The CSV files with header cols and 1..MaxRows rows, each row one of R.
Files(cols, R) ==
    {[columns |-> cols,
      rows |-> [i \in DOMAIN rs |-> [c \in Range(cols) |-> rs[i][c]]]] :
        rs \in UNION {[1..n -> R] : n \in 1..MaxRows}}

\* Files that lack one column, or both cost columns, or none.
MainFiles ==
    UNION {Files(Without(AllColumns, absent),
                 {("Product Type" :> p) @@ ("Units Produced" :> u) @@ BaseRow :
                     p \in {"A", "B"}, u \in {1, 2}}) :
             absent \in {{}} \cup {{c} : c \in Range(AllColumns)}
                        \cup {{"Material Cost Per Unit", "Labour Cost Per Hour"}}}

\* Files whose rows differ in product (possibly missing) and units.
UnitsFiles ==
    Files(AllColumns,
          {("Product Type" :> p) @@ ("Units Produced" :> u) @@ BaseRow :
              p \in {"A", "B", NA}, u \in {0, 1, 2}})

\* Files whose rows differ in date (possibly no date) and units.
MonthlyFiles ==
    Files(AllColumns,
          {("Date" :> d) @@ ("Units Produced" :> u) @@ BaseRow :
              d \in {"2023-12-30", "2024-01-15", "2024-01-20", "not a date"},
              u \in {1, 2}})

\* Files with any subset of the two cost columns.
CostFiles ==
    UNION {Files(Without(AllColumns, absent),
                 {("Material Cost Per Unit" :> m) @@ ("Labour Cost Per Hour" :> l)
                  @@ BaseRow : m \in {1, 2}, l \in {3, 4}}) :
             absent \in SUBSET {"Material Cost Per Unit", "Labour Cost Per Hour"}}

\* The scenario of the specification: A with units [10, 20] and defects
\* [1, 2], B with units [5] and defects [1].
ScenarioFile ==
    [columns |-> AllColumns,
     rows |-> << ("Units Produced" :> 10) @@ ("Defects" :> 1) @@ BaseRow,
                 ("Units Produced" :> 20) @@ ("Defects" :> 2) @@ BaseRow,
                 ("Product Type" :> "B") @@ ("Units Produced" :> 5)
                 @@ ("Defects" :> 1) @@ BaseRow >>]

\* Files whose rows differ in product, units (possibly zero) and defects.
DefectFiles ==
    Files(AllColumns,
          {("Product Type" :> p) @@ ("Units Produced" :> u) @@ ("Defects" :> d)
           @@ BaseRow : p \in {"A", "B"}, u \in {0, 1, 2}, d \in {0, 1}})
    \cup {ScenarioFile}

\* Files whose rows differ in product, shift, units and operator count
\* (possibly zero).
ProductivityFiles ==
    Files(AllColumns,
          {("Product Type" :> k[1]) @@ ("Shift" :> k[2]) @@ ("Units Produced" :> w[1])
           @@ ("Operator Count" :> w[2]) @@ BaseRow :
              k \in {<<"A", "Night">>, <<"B", "Day">>},
              w \in {<<1, 3>>, <<2, 1>>, <<1, 0>>}})

InitWith(files) ==
    /\ uploaded_file \in files \cup {NoTable}
    /\ df = NoTable
    /\ units = NoTable
    /\ defects = NoTable
    /\ monthly = NoTable
    /\ cost = NoTable
    /\ energy = NoTable
    /\ defect_rate = NoTable
    /\ productivity = NoTable
    /\ buffer = <<>>
    /\ download = NoDownload
    /\ ran = <<>>
    /\ pc = "start"
    /\ error = NoError

Init == InitWith(MainFiles)
InitUnits == InitWith(UnitsFiles)
InitMonthly == InitWith(MonthlyFiles)
InitCost == InitWith(CostFiles)
InitDefectRate == InitWith(DefectFiles)
InitProductivity == InitWith(ProductivityFiles)

Spec == Init /\ [][Next]_vars
SpecUnits == InitUnits /\ [][Next]_vars
SpecMonthly == InitMonthly /\ [][Next]_vars
SpecCost == InitCost /\ [][Next]_vars
SpecDefectRate == InitDefectRate /\ [][Next]_vars
SpecProductivity == InitProductivity /\ [][Next]_vars

(***************************************************************************)
(* Properties.                                                             *)
(***************************************************************************)
Returned(f) == f \in Range(ran)

\* The report functions in the order the specification lists their sheets.
ReportOrder ==
    <<"units", "defects", "monthly", "cost", "energy", "defect_rate", "productivity">>

SheetOrder ==
    <<"Units by Product", "Defects by Shift", "Monthly Production", "Cost Summary",
      "Energy vs Prod", "Defect Rate (%)", "Productivity">>

ResultOf(f) ==
    CASE f = "units" -> units
      [] f = "defects" -> defects
      [] f = "monthly" -> monthly
      [] f = "cost" -> cost
      [] f = "energy" -> energy
      [] f = "defect_rate" -> defect_rate
      [] f = "productivity" -> productivity

\* The sum of column col over a sequence of rows.
TotalOver(rows, col) == SumInts([i \in DOMAIN rows |-> rows[i][col]])

\* The sum of column col over the rows of product p.
TotalOfProduct(table, col, p) ==
    LET IsP(row) == row["Product Type"] = p
    IN  TotalOver(SelectSeq(table.rows, IsP), col)

\* The table with its rows reordered by the permutation perm.
Reordered(table, perm) ==
    [columns |-> table.columns,
     rows |-> [i \in DOMAIN table.rows |-> table.rows[perm[i]]]]

\* C1: the Units Produced totals of the rows generate_units_by_product
\* returns add up to the Units Produced of all rows of the input table,
\* rows with a missing Product Type included.
C1_UnitsTotalPreserved ==
    Returned("units") =>
        SumInts(Column(units, "Units Produced")) = SumInts(Column(df, "Units Produced"))

\* C2: the totals of the rows generate_monthly_production returns add up
\* to the Units Produced of exactly the rows whose Date parsed, and no Month
\* row stems from a row whose Date did not parse.
C2_MonthlyTotalOverParsedDates ==
    Returned("monthly") =>
        LET Parsed(row) == row["Date"] # NaT
        IN  /\ SumInts(Column(monthly, "Units Produced"))
                 = TotalOver(SelectSeq(df.rows, Parsed), "Units Produced")
            /\ \A n \in DOMAIN monthly.rows :
                 \E i \in DOMAIN df.rows :
                    /\ Parsed(df.rows[i])
                    /\ df.rows[i]["Month"] = monthly.rows[n]["Month"]

\* C3: when one of the seven report functions fails, every other one
\* still returns its result and the workbook is still written.
C3_FailureDoesNotAbortBatch ==
    (pc = "crashed" /\ error.at \in Range(ReportOrder)) =>
        /\ \A f \in Range(ReportOrder) \ {error.at} : Returned(f)
        /\ buffer # <<>>

\* C4: whatever goes wrong in the mail step, the run does not end in an
\* uncaught error there, and a rendered download stays as it was.
C4_MailStepNeverUncaught ==
    /\ error.at # "mail"
    /\ (pc \in {"done", "crashed"} /\ buffer # <<>>) => download.data = buffer

\* C5: every product whose Units Produced total is zero gets the same,
\* fixed rate, whether its Defects total is zero or positive.
C5_ZeroUnitsOneSentinel ==
    Returned("defect_rate") =>
        \A m, n \in DOMAIN defect_rate.rows :
            (/\ TotalOfProduct(df, "Units Produced", defect_rate.rows[m]["Product Type"]) = 0
             /\ TotalOfProduct(df, "Units Produced", defect_rate.rows[n]["Product Type"]) = 0)
            => defect_rate.rows[m]["Defect Rate (%)"] = defect_rate.rows[n]["Defect Rate (%)"]

\* C6: from loading to the end of the run the input table keeps the
\* uploaded columns and rows, with Date parsed, and gains nothing but the
\* Month column that generate_monthly_production adds.
C6_InputTableOnlyGainsMonth ==
    df # NoTable =>
        /\ df.columns = IF Returned("monthly")
                        THEN Append(uploaded_file.columns, "Month")
                        ELSE uploaded_file.columns
        /\ Len(df.rows) = Len(uploaded_file.rows)
        /\ \A i \in DOMAIN df.rows :
             /\ DOMAIN df.rows[i] = Range(df.columns)
             /\ \A c \in Range(uploaded_file.columns) :
                  df.rows[i][c] = IF c = "Date"
                                  THEN to_datetime(uploaded_file.rows[i][c])
                                  ELSE uploaded_file.rows[i][c]

C6_Witness ==
    /\ pc = "download"
    /\ Returned("productivity")
    /\ "Month" \in Range(df.columns)
    /\ Len(df.rows) > 1

\* C7: a written workbook has exactly the seven sheets in the stated
\* order, which is the order the report functions ran in, and each sheet
\* holds the result of the function of its name.
C7_SevenSheetsInRunOrder ==
    buffer # <<>> =>
        /\ [i \in DOMAIN buffer |-> buffer[i].sheet_name] = SheetOrder
        /\ ran = ReportOrder
        /\ \A i \in DOMAIN buffer : buffer[i].table = ResultOf(ran[i])

C7_Witness ==
    /\ pc = "mail"
    /\ download.data = buffer
    /\ Len(buffer) = Len(SheetOrder)
    /\ Len(buffer[4].table.rows) = 2

\* C8: generate_avg_cost_summary never raises over absent cost columns,
\* and returns one row per cost column present: Material Cost Per Unit
\* alone, Labour Cost Per Hour alone, both, or no row at all.
C8_CostRowsFollowPresentColumns ==
    /\ error.at # "cost"
    /\ Returned("cost") =>
         LET material == HasColumn(uploaded_file, "Material Cost Per Unit")
             labour == HasColumn(uploaded_file, "Labour Cost Per Hour")
             index == [n \in DOMAIN cost.rows |-> cost.rows[n]["index"]]
         IN  /\ (material /\ ~labour) => index = <<"Material Cost Per Unit">>
             /\ (~material /\ labour) => index = <<"Labour Cost Per Hour">>
             /\ (material /\ labour) =>
                  Len(index) = 2 /\ Range(index) = {"Material Cost Per Unit",
                                                     "Labour Cost Per Hour"}
             /\ (~material /\ ~labour) => index = <<>>

C8_Witness ==
    /\ Returned("cost")
    /\ ~HasColumn(uploaded_file, "Labour Cost Per Hour")
    /\ HasColumn(uploaded_file, "Material Cost Per Unit")
    /\ Len(cost.rows) = 1

\* C9 as claimed: on every reordering of the input rows
\* generate_productivity_per_operator returns the same rows: the same keys,
\* the same mean per key, in the same order.
C9_ProductivityRowOrderInvariant ==
    pc = "export" =>
        \A perm \in Permutations(DOMAIN df.rows) :
            generate_productivity_per_operator(Reordered(df, perm)).ret = productivity

\* C9 as amended: on every reordering of the input rows the result has
\* the same (Product Type, Shift) keys in the same order, and the same mean
\* for every key whose group has at most two rows.
C9_ProductivityKeysRowOrderInvariant ==
    pc = "export" =>
        \A perm \in Permutations(DOMAIN df.rows) :
            LET other == generate_productivity_per_operator(Reordered(df, perm)).ret
                keys == <<"Product Type", "Shift">>
                Size(k) == Cardinality({i \in DOMAIN df.rows : KeyOf(df.rows[i], keys) = k})
            IN  /\ Project(other, keys) = Project(productivity, keys)
                /\ \A n \in DOMAIN productivity.rows :
                     Size(KeyOf(productivity.rows[n], keys)) <= 2
                     => other.rows[n] = productivity.rows[n]

C9_Witness ==
    /\ pc = "export"
    /\ Len(productivity.rows) = 2
    /\ \E i, j \in DOMAIN df.rows :
         /\ i < j
         /\ KeyOf(df.rows[i], <<"Product Type", "Shift">>)
              = KeyOf(df.rows[j], <<"Product Type", "Shift">>)
         /\ df.rows[i] # df.rows[j]

\* C10: every product whose Units Produced total is not zero has exactly
\* one row, and its rate is the Defects total over the Units Produced total,
\* times 100: A with units [10, 20] and defects [1, 2] has 10.0, B with
\* units [5] and defects [1] has 20.0.
C10_RateIsRatioOfGroupSums ==
    Returned("defect_rate") =>
        /\ \A p \in {df.rows[i]["Product Type"] : i \in DOMAIN df.rows} \ {NA} :
             LET produced == TotalOfProduct(df, "Units Produced", p)
                 defective == TotalOfProduct(df, "Defects", p)
                 rowsOfP == {n \in DOMAIN defect_rate.rows :
                               defect_rate.rows[n]["Product Type"] = p}
             IN  produced # 0 =>
                   /\ Cardinality(rowsOfP) = 1
                   /\ \A n \in rowsOfP :
                        defect_rate.rows[n]["Defect Rate (%)"]
                          = FMul(Fl(defective, produced), FromInt(100))
        /\ uploaded_file = ScenarioFile =>
             defect_rate.rows =
                << ("Product Type" :> "A") @@ ("Defect Rate (%)" :> Rat(10, 1)),
                   ("Product Type" :> "B") @@ ("Defect Rate (%)" :> Rat(20, 1)) >>

C10_Witness ==
    /\ Returned("defect_rate")
    /\ \E n \in DOMAIN defect_rate.rows :
         /\ TotalOfProduct(df, "Units Produced", defect_rate.rows[n]["Product Type"]) = 3
         /\ TotalOfProduct(df, "Defects", defect_rate.rows[n]["Product Type"]) = 1
         /\ Len(SelectSeq(df.rows, LAMBDA row :
                  row["Product Type"] = defect_rate.rows[n]["Product Type"])) = 2

====
